---- MODULE Spec2Model ----
(***************************************************************************)
(* The history builder of git-historian (src/src/history.rs): a walk over  *)
(* the commits, newest first, that appends one HistoryNode per delta on a   *)
(* tracked path to the branch of that path and stitches branches together   *)
(* across renames and copies.                                               *)
(*                                                                          *)
(* A node is identified by its index in `nodes` (the heap of Rc cells);     *)
(* None (0) is the absent Option.  One step of the model is one iteration   *)
(* of a loop of the code: NextCommit is an iteration of `for id in walk`,   *)
(* SkipDelta and AppendDelta are the two ways through an iteration of       *)
(* `for delta in diff.deltas()`.                                            *)
(*                                                                          *)
(* The log parser (src/src/parsing.rs) reads the lines of `git log`, one    *)
(* per iteration of its loop, and hands each finished ParsedCommit to a     *)
(* bounded channel.  A line is a sequence of one-character strings.  The    *)
(* SHA1 of src/src/types.rs is parsed from, and printed to, such sequences. *)
(***************************************************************************)
EXTENDS Integers, Sequences, FiniteSets, TLC

\* Bound of the exploration: the nodes a walk may allocate.
MaxNodes == 3

\* The paths deltas may name, and the change kinds of the walk.
Paths == {"a", "b", "c"}
Kinds == {"Added", "Deleted", "Modified", "Renamed", "Copied"}
RenameKinds == {"Renamed", "Copied"}

\* The path sets a caller hands over.  Path names are interchangeable, so
\* one set of each size is taken; "c" is never requested and is tracked
\* only through a rename or copy.
PathSets == {{}, {"a"}, {"a", "b"}}

None == 0
NoPath == ""

\* The deltas a diff can carry: a rename or copy has a source other than
\* its new name, the other kinds have none.
Deltas ==
  [kind : Kinds \ RenameKinds, path : Paths, from : {NoPath}]
    \cup {d \in [kind : RenameKinds, path : Paths, from : Paths] : d.from # d.path}

VARIABLES
  paths,            \* the PathSet handed to gather_history
  tree,             \* HistoryState.tree: path -> head node
  pending_renames,  \* HistoryState.pending_renames: old path -> new paths
  current_paths,    \* HistoryState.current_paths
  nodes,            \* the HistoryNodes allocated so far
  visits,           \* visitor invocations during the current commit
  commit,           \* position of the walk: number of commits visited
  new_path,         \* the new name of the delta the inner loop handled last
  waiting,          \* history: <<from, path>> redirections not yet met by a delta on `from`
  due,              \* history: paths whose redirection the last delta met
  pc                \* "walking", "done", "overflow", "assert_failed"

VARIABLES
  lines,            \* names of the lines br.lines() has yielded so far
  state,            \* get_history: state ("Hash", "Timestamp", "Changes")
  current_commit,   \* get_history: current_commit
  parser_pc,        \* "reading", "sending", "flushing", "done", "panicked"
  outgoing,         \* the commit commit_sink is handing to the channel
  capacity,         \* the bound of the channel
  channel,          \* the commits the channel holds
  sent,             \* number of sends that have completed
  received,         \* the commits the consumer has received, in order
  receiver          \* "alive", "dropped", "finished"

VARIABLES
  sha1_input,       \* the string handed to SHA1::parse
  sha1_result,      \* what SHA1::parse returned
  sha1_text,        \* what Display wrote for the parsed SHA1
  sha1_pc           \* "input", "parsed", "shown"

builder_vars ==
  <<paths, tree, pending_renames, current_paths, nodes, visits, commit,
    new_path, waiting, due, pc>>

parser_vars ==
  <<lines, state, current_commit, parser_pc, outgoing, capacity, channel,
    sent, received, receiver>>

sha1_vars == <<sha1_input, sha1_result, sha1_text, sha1_pc>>

vars == <<builder_vars, parser_vars, sha1_vars>>

EmptyMap == [x \in {} |-> None]

remove_key(f, key) == [x \in DOMAIN f \ {key} |-> f[x]]

\* The builder's own state, as one value the helpers below transform.
HistoryState ==
  [tree |-> tree, pending_renames |-> pending_renames,
   current_paths |-> current_paths, nodes |-> nodes, visits |-> visits,
   pc |-> pc]

----------------------------------------------------------------------------
\* tail_of: follow `previous` to the node that has none.  The recursion of
\* the code does not return on a cyclic chain (it exhausts the stack); that
\* outcome is None here.  A chain without a cycle has at most Len(ns) nodes.
RECURSIVE tail_walk(_, _, _)
tail_walk(ns, head, fuel) ==
  IF ns[head].previous = None THEN head
  ELSE IF fuel = 0 THEN None
  ELSE tail_walk(ns, ns[head].previous, fuel - 1)

tail_of_head(ns, head) == head

tail_of(ns, head) == tail_walk(ns, head, Len(ns))

\* The nodes met from `head` by following `previous`, newest first, cut
\* after Len(ns) + 1 nodes.
RECURSIVE chain_walk(_, _, _)
chain_walk(ns, head, fuel) ==
  IF head = None \/ fuel = 0 THEN <<>>
  ELSE <<head>> \o chain_walk(ns, ns[head].previous, fuel - 1)

Chain(ns, head) == chain_walk(ns, head, Len(ns) + 1)

Reaches(ns, head, n) == \E i \in DOMAIN Chain(ns, head) : Chain(ns, head)[i] = n

\* The payload stored in a node: the visitor's projection of the commit,
\* or nothing for a commit the filter rejects.
NodeData(c, k) == IF k THEN c ELSE None

\* new_node: allocate a node with no previous.  Its identity is its index.
new_node_memoizing(st, delta, c, k) ==
  [st EXCEPT !.nodes = Append(@, [data |-> NodeData(c, k),
                                   change_type |-> delta.kind,
                                   previous |-> None,
                                   commit |-> c,
                                   path |-> delta.path,
                                   from |-> delta.from]),
             !.visits = IF k /\ @ = 0 THEN 1 ELSE @]

new_node(st, delta, c, k) ==
  [st EXCEPT !.nodes = Append(@, [data |-> NodeData(c, k),
                                   change_type |-> delta.kind,
                                   previous |-> None,
                                   commit |-> c,
                                   path |-> delta.path,
                                   from |-> delta.from]),
             !.visits = IF k THEN @ + 1 ELSE @]

\* append_node: hang `node` behind the tail of key's branch, or make it the
\* head of a new branch.
append_node_replacing_head(st, node, key) ==
  IF st.pc # "walking" THEN st
  ELSE IF key \in DOMAIN st.tree
  THEN [st EXCEPT !.tree[key] = node,
                  !.nodes[node].previous = IF st.tree[key] = node THEN None ELSE st.tree[key]]
  ELSE [st EXCEPT !.tree = @ @@ (key :> node)]

append_node(st, node, key) ==
  IF st.pc # "walking" THEN st
  ELSE IF key \in DOMAIN st.tree
  THEN LET tail == tail_of(st.nodes, st.tree[key])
       IN  IF tail = None THEN [st EXCEPT !.pc = "overflow"]
           ELSE IF st.nodes[tail].previous # None
           THEN [st EXCEPT !.pc = "assert_failed"]
           ELSE [st EXCEPT !.nodes[tail].previous = node]
  ELSE [st EXCEPT !.tree = @ @@ (key :> node)]

\* The loop of link_copies over the removed entry.
RECURSIVE link_each(_, _, _)
link_each(st, tail, to_link) ==
  IF to_link = <<>> THEN st
  ELSE link_each(append_node(st, tail, Head(to_link)), tail, Tail(to_link))

\* link_copies: every branch that waits for a change to `key` gets the
\* tail of key's branch as its next node.
link_copies_forgetting(st, key) ==
  IF st.pc # "walking" \/ key \notin DOMAIN st.pending_renames THEN st
  ELSE [st EXCEPT !.pending_renames = remove_key(@, key)]

link_copies(st, key) ==
  IF st.pc # "walking" \/ key \notin DOMAIN st.pending_renames THEN st
  ELSE LET to_link == st.pending_renames[key]
           s1 == [st EXCEPT !.pending_renames = remove_key(@, key)]
           tail == tail_of(s1.nodes, s1.tree[key])
       IN  IF tail = None THEN [s1 EXCEPT !.pc = "overflow"]
           ELSE link_each(s1, tail, to_link)

\* The Added arm after link_copies.
stop_tracking_forgotten(st, key) == st

stop_tracking(st, key) ==
  IF st.pc # "walking" THEN st
  ELSE [st EXCEPT !.current_paths = @ \ {key}]

\* The Renamed | Copied arm after link_copies.
redirect_without_tracking(st, old_path, key) ==
  IF st.pc # "walking" THEN st
  ELSE [st EXCEPT
          !.pending_renames =
             IF old_path \in DOMAIN @
             THEN [@ EXCEPT ![old_path] = Append(@, key)]
             ELSE @ @@ (old_path :> <<key>>),
          !.current_paths = @ \ {key}]

redirect(st, old_path, key) ==
  IF st.pc # "walking" THEN st
  ELSE [st EXCEPT
          !.pending_renames =
             IF old_path \in DOMAIN @
             THEN [@ EXCEPT ![old_path] = Append(@, key)]
             ELSE @ @@ (old_path :> <<key>>),
          !.current_paths = (@ \cup {old_path}) \ {key}]

\* The gate at the top of the loop body.
gate_on_any_known_path(st, key) ==
  key \in st.current_paths \cup DOMAIN st.tree

gate(st, key) == key \in st.current_paths

\* The match on the status of a delta that passed the gate; `node` is the
\* node already appended to the branch of the new path.
status_arm_delete_stops_tracking(st, delta, node) ==
  CASE delta.kind = "Modified" -> link_copies(st, delta.path)
    [] delta.kind = "Added" -> stop_tracking(link_copies(st, delta.path), delta.path)
    [] delta.kind \in RenameKinds ->
         redirect(link_copies(st, delta.path), delta.from, delta.path)
    [] OTHER -> stop_tracking(st, delta.path)

status_arm(st, delta, node) ==
  CASE delta.kind = "Modified" -> link_copies(st, delta.path)
    [] delta.kind = "Added" -> stop_tracking(link_copies(st, delta.path), delta.path)
    [] delta.kind \in RenameKinds ->
         redirect(link_copies(st, delta.path), delta.from, delta.path)
    [] OTHER -> st

\* One iteration of the loop of append_diff.
append_diff_skipping_filtered(st, delta, c, k) ==
  IF ~gate(st, delta.path) \/ ~k THEN st
  ELSE LET node == Len(st.nodes) + 1
       IN  status_arm(append_node(new_node(st, delta, c, k), node, delta.path),
                      delta, node)

append_diff_delete_detached(st, delta, c, k) ==
  IF ~gate(st, delta.path) THEN st
  ELSE IF delta.kind = "Deleted" THEN new_node(st, delta, c, k)
  ELSE LET node == Len(st.nodes) + 1
       IN  status_arm(append_node(new_node(st, delta, c, k), node, delta.path),
                      delta, node)

append_diff(st, delta, c, k) ==
  IF ~gate(st, delta.path) THEN st
  ELSE LET node == Len(st.nodes) + 1
       IN  status_arm(append_node(new_node(st, delta, c, k), node, delta.path),
                      delta, node)

----------------------------------------------------------------------------
\* ParsedCommit::default and SHA1::default.
Zero == [neg |-> FALSE, digits |-> <<>>]

SHA1_default == [i \in 1..20 |-> 0]

ParsedCommit_default ==
  [id |-> SHA1_default, when |-> [sec |-> Zero, nsec |-> 0], deltas |-> <<>>]

\* The parser before its first line, on a channel nobody has used.
ParserStart ==
  /\ lines = <<>>
  /\ state = "Hash"
  /\ current_commit = ParsedCommit_default
  /\ parser_pc = "reading"
  /\ outgoing = ParsedCommit_default
  /\ channel = <<>>
  /\ sent = 0
  /\ received = <<>>
  /\ receiver = "alive"

\* The walk of the builder does not run the parser, nor parse a SHA1.
ParserIdle == ParserStart /\ capacity = 0

SHA1Idle ==
  /\ sha1_input = <<>>
  /\ sha1_result = [ok |-> FALSE, err |-> "IncorrectLength"]
  /\ sha1_text = <<>>
  /\ sha1_pc = "input"

\* HistoryState::new, before the walk.
BuilderStart ==
  /\ paths \in PathSets
  /\ tree = EmptyMap
  /\ pending_renames = EmptyMap
  /\ current_paths = paths
  /\ nodes = <<>>
  /\ visits = 0
  /\ commit = 0
  /\ new_path = NoPath
  /\ waiting = {}
  /\ due = {}
  /\ pc = "walking"

\* No walk: nothing is requested.
BuilderIdle == BuilderStart /\ paths = {}

Init == BuilderStart /\ ParserIdle /\ SHA1Idle

\* Some delta of the current commit was processed.
Contributed == \E i \in DOMAIN nodes : nodes[i].commit = commit

\* for id in walk: the next (older) commit and its diff.  A commit none of
\* whose deltas is processed leaves the builder as it found it; the walk is
\* explored with at most one such commit, the last one.
NextCommit ==
  /\ pc = "walking"
  /\ commit = 0 \/ Contributed
  /\ commit' = commit + 1
  /\ visits' = 0
  /\ new_path' = NoPath
  /\ due' = {}
  /\ UNCHANGED <<paths, tree, pending_renames, current_paths, nodes, waiting, pc>>
  /\ UNCHANGED <<parser_vars, sha1_vars>>

\* The filter is a predicate of the commit: it answers a commit the same
\* way for every node of that commit.
SameAnswer(k) ==
  \A i \in DOMAIN nodes : nodes[i].commit = commit => (nodes[i].data # None) = k

\* for delta in diff.deltas(): the next delta of the current commit names
\* a path that is not tracked, and the loop continues.
SkipDelta(key) ==
  /\ pc = "walking"
  /\ commit >= 1
  /\ ~gate(HistoryState, key)
  /\ new_path' = key
  /\ due' = {}
  /\ UNCHANGED <<paths, tree, pending_renames, current_paths, nodes, visits,
                 commit, waiting, pc>>
  /\ UNCHANGED <<parser_vars, sha1_vars>>

\* for delta in diff.deltas(): the next delta of the current commit passes
\* the gate; k is the filter's answer for the commit.  When the processing
\* does not return (a walk to a tail is on a chain that has none) the
\* process is lost with its stack: nothing of the delta is kept, and nothing
\* runs afterwards.
AppendDelta(delta, k) ==
  /\ pc = "walking"
  /\ commit >= 1
  /\ SameAnswer(k)
  /\ gate(HistoryState, delta.path)
  /\ LET st == append_diff(HistoryState, delta, commit, k)
         met == {w \in waiting : w[1] = delta.path}
     IN  IF st.pc = "overflow"
         THEN /\ pc' = "overflow"
              /\ new_path' = delta.path
              /\ UNCHANGED <<tree, pending_renames, current_paths, nodes,
                             visits, waiting, due>>
         ELSE /\ Len(nodes) < MaxNodes
              /\ tree' = st.tree
              /\ pending_renames' = st.pending_renames
              /\ current_paths' = st.current_paths
              /\ nodes' = st.nodes
              /\ visits' = st.visits
              /\ pc' = st.pc
              /\ new_path' = delta.path
              /\ due' = {w[2] : w \in met}
              /\ waiting' =
                   (waiting \ met)
                     \cup (IF delta.kind \in RenameKinds
                           THEN {<<delta.from, delta.path>>} ELSE {})
  /\ UNCHANGED <<paths, commit>>
  /\ UNCHANGED <<parser_vars, sha1_vars>>

\* The walk is exhausted: gather_history returns state.tree, and the locals
\* of its loops are gone.
Return ==
  /\ pc = "walking"
  /\ pc' = "done"
  /\ new_path' = NoPath
  /\ visits' = 0
  /\ due' = {}
  /\ UNCHANGED <<paths, tree, pending_renames, current_paths, nodes, commit,
                 waiting>>
  /\ UNCHANGED <<parser_vars, sha1_vars>>

\* The walk of src/src/history.rs: every commit is visited, none filtered.
Next ==
  \/ NextCommit
  \/ \E key \in Paths : SkipDelta(key)
  \/ \E delta \in Deltas : AppendDelta(delta, TRUE)
  \/ Return

Spec == Init /\ [][Next]_vars

\* The walk with a filter predicate deciding, per commit, whether its
\* nodes carry data.  It is explored for the requested path and one other
\* name.
FilteredPaths == {"a", "c"}

FilteredDeltas ==
  {d \in Deltas : d.path \in FilteredPaths /\ d.from \in FilteredPaths \cup {NoPath}}

NextFiltered ==
  \/ NextCommit
  \/ \E key \in FilteredPaths : SkipDelta(key)
  \/ \E delta \in FilteredDeltas, k \in BOOLEAN : AppendDelta(delta, k)
  \/ Return

InitFiltered == Init /\ paths = {"a"}

SpecFiltered == InitFiltered /\ [][NextFiltered]_vars

----------------------------------------------------------------------------
\* Strings are sequences of one-character strings.

Digits ==
  <<"0", "1", "2", "3", "4", "5", "6", "7", "8", "9",
    "a", "b", "c", "d", "e", "f">>

UpperDigits ==
  <<"0", "1", "2", "3", "4", "5", "6", "7", "8", "9",
    "A", "B", "C", "D", "E", "F">>

\* char::to_digit(radix): Some for a digit of the radix in either case.
is_digit(c, radix) ==
  \E i \in 1..radix : Digits[i] = c \/ UpperDigits[i] = c

to_digit(c, radix) ==
  (CHOOSE i \in 1..radix : Digits[i] = c \/ UpperDigits[i] = c) - 1

\* The digit loop of from_str_radix for an unsigned type of maximum `max`.
RECURSIVE digits_value(_, _, _, _)
digits_value(src, radix, max, acc) ==
  IF src = <<>> THEN [ok |-> TRUE, val |-> acc]
  ELSE IF ~is_digit(Head(src), radix) THEN [ok |-> FALSE, err |-> "InvalidDigit"]
  ELSE LET v == acc * radix + to_digit(Head(src), radix)
       IN  IF v > max THEN [ok |-> FALSE, err |-> "PosOverflow"]
           ELSE digits_value(Tail(src), radix, max, v)

\* from_str_radix for an unsigned type: an empty string and a lone sign are
\* errors, a leading "+" is skipped, a leading "-" is taken as a digit (and
\* is none).
from_str_radix(src, radix, max) ==
  IF src = <<>> THEN [ok |-> FALSE, err |-> "Empty"]
  ELSE IF Len(src) = 1 /\ Head(src) \in {"+", "-"}
  THEN [ok |-> FALSE, err |-> "InvalidDigit"]
  ELSE IF Head(src) = "+" THEN digits_value(Tail(src), radix, max, 0)
  ELSE digits_value(src, radix, max, 0)

\* for i in 0..20 of SHA1::parse: byte i is read from characters 2i, 2i+1.
RECURSIVE parse_bytes(_, _)
parse_bytes(s, i) ==
  IF i = 20 THEN [ok |-> TRUE, bytes |-> <<>>]
  ELSE LET b == from_str_radix(SubSeq(s, 2 * i + 1, 2 * i + 2), 16, 255)
       IN  IF ~b.ok THEN [ok |-> FALSE, err |-> "InvalidHexadecimal"]
           ELSE LET rest == parse_bytes(s, i + 1)
                IN  IF rest.ok
                    THEN [ok |-> TRUE, bytes |-> <<b.val>> \o rest.bytes]
                    ELSE rest

SHA1_parse(s) ==
  IF Len(s) # 40 THEN [ok |-> FALSE, err |-> "IncorrectLength"]
  ELSE parse_bytes(s, 0)

\* Display for SHA1: {:02x} of every byte.
SHA1_fmt(bytes) ==
  [i \in 1..(2 * Len(bytes)) |->
     LET b == bytes[(i + 1) \div 2]
     IN  IF i % 2 = 1 THEN Digits[(b \div 16) + 1] ELSE Digits[(b % 16) + 1]]

\* The strings handed to SHA1::parse: a hexadecimal string of one of a few
\* lengths in which a window of at most MaxWindow characters is replaced.
MaxWindow == 2

WindowChars == {"0", "9", "a", "F", "g", "+", "-"}

Windows == UNION {[1..n -> WindowChars] : n \in 0..MaxWindow}

SHA1Lengths == {0, 38, 39, 40, 41}

WindowStarts == {1, 2, 39}

Overlay(n, at, w) ==
  [i \in 1..n |->
     IF i \in at..(at + Len(w) - 1) THEN w[i - at + 1]
     ELSE IF i % 2 = 1 THEN "C" ELSE "4"]

SHA1Inputs ==
  {Overlay(n, at, w) : n \in SHA1Lengths, at \in WindowStarts, w \in Windows}

SHA1Parse ==
  /\ sha1_pc = "input"
  /\ sha1_result' = SHA1_parse(sha1_input)
  /\ sha1_pc' = "parsed"
  /\ UNCHANGED <<sha1_input, sha1_text, builder_vars, parser_vars>>

SHA1Display ==
  /\ sha1_pc = "parsed"
  /\ sha1_result.ok
  /\ sha1_text' = SHA1_fmt(sha1_result.bytes)
  /\ sha1_pc' = "shown"
  /\ UNCHANGED <<sha1_input, sha1_result, builder_vars, parser_vars>>

InitSHA1 ==
  /\ BuilderIdle
  /\ ParserIdle
  /\ sha1_input \in SHA1Inputs
  /\ sha1_result = [ok |-> FALSE, err |-> "IncorrectLength"]
  /\ sha1_text = <<>>
  /\ sha1_pc = "input"

NextSHA1 == SHA1Parse \/ SHA1Display

SpecSHA1 == InitSHA1 /\ [][NextSHA1]_vars

----------------------------------------------------------------------------
\* The lines `git log` may print.  A line has a name, kept in the state,
\* and a text, the characters the parser works on.
Repeat(pair, n) == [i \in 1..(2 * n) |-> IF i % 2 = 1 THEN pair[1] ELSE pair[2]]

Tab == "\t"

LineText ==
  [blank     |-> <<>>,
   hash_0a   |-> Repeat(<<"0", "a">>, 20),
   hash_Fb   |-> Repeat(<<"F", "b">>, 20),
   plus_f    |-> Repeat(<<"+", "f">>, 20),
   hash_19   |-> Repeat(<<"0", "a">>, 19) \o <<"0">>,
   time_7    |-> <<"7">>,
   time_m12  |-> <<"-", "1", "2">>,
   time_x    |-> <<"1", "x">>,
   M_a       |-> <<"M", Tab, "a">>,
   T_b       |-> <<"T", Tab, "b">>,
   R90_a_b   |-> <<"R", "9", "0", Tab, "a", Tab, "b">>,
   C100_b_a  |-> <<"C", "1", "0", "0", Tab, "b", Tab, "a">>,
   X_a       |-> <<"X", Tab, "a">>,
   M_a_b     |-> <<"M", Tab, "a", Tab, "b">>,
   R90_a     |-> <<"R", "9", "0", Tab, "a">>,
   R_a_b     |-> <<"R", Tab, "a", Tab, "b">>,
   Rx_a_b    |-> <<"R", "x", Tab, "a", Tab, "b">>,
   R101_a_b  |-> <<"R", "1", "0", "1", Tab, "a", Tab, "b">>]

Lines == DOMAIN LineText

\* str::split('\t'): the tokens between the tabs, empty ones included.
RECURSIVE split(_, _)
split(s, token) ==
  IF s = <<>> THEN <<token>>
  ELSE IF Head(s) = Tab THEN <<token>> \o split(Tail(s), <<>>)
  ELSE split(Tail(s), Append(token, Head(s)))

\* Leading zeros do not count for the size of a number.
RECURSIVE strip_zeros(_)
strip_zeros(ds) ==
  IF ds # <<>> /\ Head(ds) = "0" THEN strip_zeros(Tail(ds)) ELSE ds

\* a <= b for two numerals of the same length.
RECURSIVE numeral_le(_, _)
numeral_le(a, b) ==
  IF a = <<>> THEN TRUE
  ELSE IF Head(a) # Head(b) THEN to_digit(Head(a), 10) < to_digit(Head(b), 10)
  ELSE numeral_le(Tail(a), Tail(b))

I64Max ==
  <<"9", "2", "2", "3", "3", "7", "2", "0", "3", "6",
    "8", "5", "4", "7", "7", "5", "8", "0", "7">>

\* The magnitude of i64::MIN is that of i64::MAX plus one.
I64MinMagnitude == SubSeq(I64Max, 1, 18) \o <<"8">>

\* line.parse::<i64>(): an optional sign, then decimal digits, within the
\* range of i64.  The value is kept as a sign and the digits without
\* leading zeros.
parse_i64(s) ==
  IF s = <<>> THEN [ok |-> FALSE, err |-> "Empty"]
  ELSE IF Len(s) = 1 /\ Head(s) \in {"+", "-"}
  THEN [ok |-> FALSE, err |-> "InvalidDigit"]
  ELSE LET neg == Head(s) = "-"
           ds == IF Head(s) \in {"+", "-"} THEN Tail(s) ELSE s
           sig == strip_zeros(ds)
           max == IF neg THEN I64MinMagnitude ELSE I64Max
       IN  IF \E i \in DOMAIN ds : ~is_digit(ds[i], 10)
           THEN [ok |-> FALSE, err |-> "InvalidDigit"]
           ELSE IF Len(sig) > Len(max) \/ (Len(sig) = Len(max) /\ ~numeral_le(sig, max))
           THEN [ok |-> FALSE, err |-> IF neg THEN "NegOverflow" ELSE "PosOverflow"]
           ELSE [ok |-> TRUE, val |-> [neg |-> neg /\ sig # <<>>, digits |-> sig]]

Panic(msg) == [ok |-> FALSE, panic |-> msg]

\* parse_change_code: the first character decides the kind; Renamed and
\* Copied parse the rest as a u8 and check it against 100.
parse_change_code(c) ==
  IF c = <<>> THEN Panic("assertion failed: !c.is_empty()")
  ELSE IF Head(c) = "A" THEN [ok |-> TRUE, change |-> [kind |-> "Added"]]
  ELSE IF Head(c) = "D" THEN [ok |-> TRUE, change |-> [kind |-> "Deleted"]]
  ELSE IF Head(c) \in {"M", "T"} THEN [ok |-> TRUE, change |-> [kind |-> "Modified"]]
  ELSE IF Head(c) \in {"R", "C"}
  THEN LET percent == from_str_radix(Tail(c), 10, 255)
       IN  IF ~percent.ok THEN Panic("called Result::unwrap() on an Err value")
           ELSE IF percent.val > 100 THEN Panic("assertion failed: r <= 100")
           ELSE [ok |-> TRUE,
                 change |-> [kind |-> IF Head(c) = "R" THEN "Renamed" ELSE "Copied",
                             percent_changed |-> percent.val]]
  ELSE Panic("Unknown delta code")

\* parse_delta: the change code, then one path, or two for a rename or copy.
parse_delta(s) ==
  LET tokens == split(s, <<>>)
  IN  IF ~(Len(tokens) > 1) THEN Panic("Expected at least one token")
      ELSE LET c == parse_change_code(tokens[1])
           IN  IF ~c.ok THEN c
               ELSE IF c.change.kind \in {"Renamed", "Copied"}
               THEN IF Len(tokens) # 3 THEN Panic("Expected three tokens")
                    ELSE [ok |-> TRUE,
                          delta |-> [change |-> c.change, path |-> tokens[3],
                                     from |-> tokens[2]]]
               ELSE IF Len(tokens) # 2 THEN Panic("Expected two tokens")
                    ELSE [ok |-> TRUE,
                          delta |-> [change |-> c.change, path |-> tokens[2],
                                     from |-> <<>>]]

\* One iteration of `for line in br.lines()`: what the match on the state
\* makes of a line.  `sends` says that the commit in progress is finished
\* and goes to commit_sink before the next one is begun.
parse_line(st, cc, line) ==
  IF line = <<>>
  THEN [ok |-> TRUE, sends |-> FALSE, state |-> st, current_commit |-> cc]
  ELSE IF st = "Hash"
  THEN LET id == SHA1_parse(line)
       IN  IF ~id.ok THEN Panic("called Result::unwrap() on an Err value")
           ELSE [ok |-> TRUE, sends |-> FALSE, state |-> "Timestamp",
                 current_commit |-> [cc EXCEPT !.id = id.bytes]]
  ELSE IF st = "Timestamp"
  THEN LET sec == parse_i64(line)
       IN  IF ~sec.ok THEN Panic("called Result::unwrap() on an Err value")
           ELSE [ok |-> TRUE, sends |-> FALSE, state |-> "Changes",
                 current_commit |-> [cc EXCEPT !.when = [sec |-> sec.val, nsec |-> 0]]]
  ELSE LET id == SHA1_parse(line)
       IN  IF id.ok
           THEN [ok |-> TRUE, sends |-> TRUE, state |-> "Timestamp",
                 current_commit |-> [ParsedCommit_default EXCEPT !.id = id.bytes]]
           ELSE LET delta == parse_delta(line)
                IN  IF ~delta.ok THEN delta
                    ELSE [ok |-> TRUE, sends |-> FALSE, state |-> st,
                          current_commit |-> [cc EXCEPT !.deltas = Append(@, delta.delta)]]

\* SyncSender::send on a channel of bound cap: an error when the receiver is
\* gone; with cap = 0 the value goes straight to a receiver; otherwise it is
\* buffered when there is room, and the sender waits when there is none.
sync_send(ch, cap, rcv, c) ==
  IF rcv # "alive" THEN [result |-> "Err"]
  ELSE IF cap = 0 THEN [result |-> "Ok", channel |-> ch, taken |-> <<c>>]
  ELSE IF Len(ch) < cap THEN [result |-> "Ok", channel |-> Append(ch, c), taken |-> <<>>]
  ELSE [result |-> "Blocked"]

\* commit_sink: sink.send(c).expect(..).
commit_sink_unbounded(c, ch, cap, rcv) ==
  IF rcv # "alive" THEN Panic("The other end stopped listening for commits.")
  ELSE [ok |-> TRUE, result |-> "Ok", channel |-> Append(ch, c), taken |-> <<>>]

commit_sink_waiting_for_receiver(c, ch, cap, rcv) ==
  LET r == sync_send(ch, cap, rcv, c)
  IN  IF r.result \in {"Err", "Blocked"} THEN [ok |-> TRUE, result |-> "Blocked"]
      ELSE [ok |-> TRUE, result |-> "Ok", channel |-> r.channel, taken |-> r.taken]

commit_sink(c, ch, cap, rcv) ==
  LET r == sync_send(ch, cap, rcv, c)
  IN  IF r.result = "Err" THEN Panic("The other end stopped listening for commits.")
      ELSE IF r.result = "Blocked" THEN [ok |-> TRUE, result |-> "Blocked"]
      ELSE [ok |-> TRUE, result |-> "Ok", channel |-> r.channel, taken |-> r.taken]

\* Bounds of the exploration: the lines of the input and the bound of the
\* channel.
MaxLines == 5
MaxCapacity == 1

\* The loop reads a line and matches on the state.
ReadLine(l) ==
  /\ parser_pc = "reading"
  /\ Len(lines) < MaxLines
  /\ lines' = Append(lines, l)
  /\ LET r == parse_line(state, current_commit, LineText[l])
     IN  IF ~r.ok
         THEN /\ parser_pc' = "panicked"
              /\ UNCHANGED <<state, current_commit, outgoing>>
         ELSE IF r.sends
         THEN /\ parser_pc' = "sending"
              /\ outgoing' = current_commit
              /\ UNCHANGED <<state, current_commit>>
         ELSE /\ state' = r.state
              /\ current_commit' = r.current_commit
              /\ UNCHANGED <<parser_pc, outgoing>>
  /\ UNCHANGED <<capacity, channel, sent, received, receiver>>
  /\ UNCHANGED <<builder_vars, sha1_vars>>

\* The input has no more lines: "Grab the last commit."
EndOfInput ==
  /\ parser_pc = "reading"
  /\ parser_pc' = "flushing"
  /\ outgoing' = current_commit
  /\ UNCHANGED <<lines, state, current_commit, capacity, channel, sent,
                 received, receiver>>
  /\ UNCHANGED <<builder_vars, sha1_vars>>

\* commit_sink returns or panics; after the send of the loop the next
\* commit is begun with the id of the line just read.
CommitSink ==
  /\ parser_pc \in {"sending", "flushing"}
  /\ LET r == commit_sink(outgoing, channel, capacity, receiver)
     IN  IF ~r.ok
         THEN /\ parser_pc' = "panicked"
              /\ UNCHANGED <<state, current_commit, channel, sent, received>>
         ELSE /\ r.result = "Ok"
              /\ channel' = r.channel
              /\ received' = received \o r.taken
              /\ sent' = sent + 1
              /\ IF parser_pc = "sending"
                 THEN LET next == parse_line(state, current_commit,
                                             LineText[lines[Len(lines)]])
                      IN  /\ state' = next.state
                          /\ current_commit' = next.current_commit
                          /\ parser_pc' = "reading"
                 ELSE /\ parser_pc' = "done"
                      /\ UNCHANGED <<state, current_commit>>
  /\ UNCHANGED <<lines, outgoing, capacity, receiver>>
  /\ UNCHANGED <<builder_vars, sha1_vars>>

\* The consumer takes the oldest commit of the channel.
Recv ==
  /\ receiver = "alive"
  /\ channel # <<>>
  /\ received' = Append(received, Head(channel))
  /\ channel' = Tail(channel)
  /\ UNCHANGED <<lines, state, current_commit, parser_pc, outgoing, capacity,
                 sent, receiver>>
  /\ UNCHANGED <<builder_vars, sha1_vars>>

\* The consumer finds the channel empty and the sender gone.
RecvDisconnected ==
  /\ receiver = "alive"
  /\ channel = <<>>
  /\ parser_pc \in {"done", "panicked"}
  /\ receiver' = "finished"
  /\ UNCHANGED <<lines, state, current_commit, parser_pc, outgoing, capacity,
                 channel, sent, received>>
  /\ UNCHANGED <<builder_vars, sha1_vars>>

\* The consumer drops its end while the parser still runs.
DropReceiver ==
  /\ receiver = "alive"
  /\ parser_pc \notin {"done", "panicked"}
  /\ receiver' = "dropped"
  /\ UNCHANGED <<lines, state, current_commit, parser_pc, outgoing, capacity,
                 channel, sent, received>>
  /\ UNCHANGED <<builder_vars, sha1_vars>>

InitParser ==
  /\ BuilderIdle
  /\ SHA1Idle
  /\ ParserStart
  /\ capacity \in 0..MaxCapacity

NextParser ==
  \/ \E l \in Lines : ReadLine(l)
  \/ EndOfInput
  \/ CommitSink
  \/ Recv
  \/ RecvDisconnected
  \/ DropReceiver

SpecParser == InitParser /\ [][NextParser]_vars

----------------------------------------------------------------------------
\* Vocabulary of the properties.

NodeIds == DOMAIN nodes

IsNode(i, kind, path, from) ==
  /\ i \in NodeIds
  /\ nodes[i].change_type = kind
  /\ nodes[i].path = path
  /\ nodes[i].from = from

\* Every processed delta belongs to a commit of its own.
OneDeltaPerCommit ==
  \A i \in NodeIds : \A j \in NodeIds : i < j => nodes[i].commit < nodes[j].commit

\* The diff of a commit as git reports it: no two processed deltas of a
\* commit have the same new name, and a path that is both the source of one
\* delta and the new name of another is the modified original of a copy.
CopySourcesSurvive ==
  \A i \in NodeIds : \A j \in NodeIds :
    (i # j /\ nodes[i].commit = nodes[j].commit) =>
      /\ nodes[i].path # nodes[j].path
      /\ nodes[i].from = nodes[j].path =>
           (nodes[i].change_type = "Copied" /\ nodes[j].change_type = "Modified")

\* The graph without the payloads.
Shape(st) ==
  [tree |-> st.tree,
   previous |-> [i \in DOMAIN st.nodes |-> st.nodes[i].previous],
   change_type |-> [i \in DOMAIN st.nodes |-> st.nodes[i].change_type],
   pending_renames |-> st.pending_renames,
   current_paths |-> st.current_paths,
   pc |-> st.pc]

----------------------------------------------------------------------------
\* C1: rename/copy following.  After a Renamed or Copied delta from -> path
\* on a tracked path, `from` is tracked, and the node of the next processed
\* delta whose new name is `from` is reachable through `previous` from the
\* head of path's branch.  Stated for streams of one delta per commit.
RenameFollowing ==
  (pc = "walking" /\ OneDeltaPerCommit) =>
    /\ \A w \in waiting : w[1] \in current_paths
    /\ \A p \in due : p \in DOMAIN tree /\ Reaches(nodes, tree[p], Len(nodes))

\* C2: the keys of the tree are requested paths only, and at return they
\* are exactly the requested paths for which a delta was processed.
\* Stated for streams of one delta per commit.
KeysAreRequestedPaths ==
  OneDeltaPerCommit =>
    /\ DOMAIN tree \subseteq paths
    /\ pc = "done" =>
         DOMAIN tree = {p \in paths : \E i \in NodeIds : nodes[i].path = p}

\* C3: head stability.  tree[k] is the node of the first processed delta
\* whose new name is k, every processed new name has a head, and no step
\* replaces or removes a head once it is set.
HeadIsFirst ==
  /\ \A i \in NodeIds : nodes[i].path \in DOMAIN tree
  /\ \A k \in DOMAIN tree :
       /\ nodes[tree[k]].path = k
       /\ \A j \in 1..(tree[k] - 1) : nodes[j].path # k

HeadStability ==
  [][ /\ \A k \in DOMAIN tree : k \in DOMAIN tree' /\ tree'[k] = tree[k]
      /\ HeadIsFirst' ]_vars

\* A head kept while an older delta on the same name was appended behind it
\* and while a delta of the head's own commit named the path as its source.
HeadStabilityWitness ==
  \E k \in DOMAIN tree :
    /\ \E j \in NodeIds : j > tree[k] /\ nodes[j].path = k
    /\ \E i \in NodeIds :
         i > tree[k] /\ nodes[i].from = k /\ nodes[i].commit = nodes[tree[k]].commit

\* C4: acyclicity.  No node's previous is the node itself or a node from
\* which it can be reached.  Stated for streams of one delta per commit.
Acyclic ==
  OneDeltaPerCommit =>
    \A i \in NodeIds :
      nodes[i].previous # None => ~Reaches(nodes, nodes[i].previous, i)

\* C5: write-once previous.  A previous that is set is never changed by a
\* later step, and the assertion of append_node never fails.
WriteOncePrevious ==
  [][ /\ \A i \in NodeIds : nodes[i].previous # None
                              => nodes'[i].previous = nodes[i].previous
      /\ pc' # "assert_failed" ]_vars

\* Two nodes were linked, one of them behind a branch that already had a
\* link.
WriteOnceWitness ==
  /\ pc = "walking"
  /\ \E i \in NodeIds : \E j \in NodeIds :
       /\ nodes[i].previous = j
       /\ nodes[j].previous # None

\* C6: strictly older previous.  The previous of a node was created by a
\* commit later in the stream than the commit of the node.  Stated for
\* diffs as git reports them.
StrictlyOlderPrevious ==
  CopySourcesSurvive =>
    \A i \in NodeIds :
      nodes[i].previous # None
        => nodes[nodes[i].previous].commit > nodes[i].commit

CopyForkRun ==
  /\ paths = {"a", "b"}
  /\ Len(nodes) = 3
  /\ IsNode(1, "Modified", "b", NoPath)
  /\ IsNode(2, "Copied", "b", "a")
  /\ IsNode(3, "Modified", "a", NoPath)
  /\ OneDeltaPerCommit

CopyCreatesFork ==
  CopyForkRun =>
    /\ DOMAIN tree = {"a", "b"}
    /\ Chain(nodes, tree["b"]) = <<1, 2, 3>>
    /\ Chain(nodes, tree["a"]) = <<3>>

CopyForkWitness == CopyForkRun /\ pc = "done"

GateSkipsUntracked ==
  [][ /\ (new_path' # NoPath /\ new_path' \notin current_paths)
           => UNCHANGED <<tree, nodes, pending_renames, current_paths, visits, pc>>
      /\ (pc' = "done" /\ nodes' = <<>>) => tree' = EmptyMap ]_vars

\* The last delta named a path that was never processed and is not tracked,
\* in a walk that has a graph to damage.
GateWitness ==
  /\ pc = "walking"
  /\ new_path # NoPath
  /\ new_path \notin current_paths
  /\ \A i \in NodeIds : nodes[i].path # new_path
  /\ nodes # <<>>
  /\ pending_renames # EmptyMap

\* C11 as stated: the visitor is invoked at most once per commit, and not
\* at all for a commit none of whose deltas is processed.  Stated for diffs
\* as git reports them.
VisitOncePerCommit ==
  (pc = "walking" /\ CopySourcesSurvive) =>
    /\ visits <= 1
    /\ ~Contributed => visits = 0

\* C11 amended: the visitor is invoked once per processed delta, so a
\* commit has as many invocations as nodes, and none when none of its deltas
\* is processed.
VisitOncePerNode ==
  pc = "walking" =>
    visits = Cardinality({i \in NodeIds : nodes[i].commit = commit})

\* A commit of two processed deltas on different paths.
VisitTwiceWitness ==
  /\ pc = "walking"
  /\ CopySourcesSurvive
  /\ visits = 2

\* C17: the builder returns: no delta's processing walks a chain without a
\* tail.  Stated for histories of one delta per commit, the delta in
\* progress being the first of its commit.
BuilderReturns == (OneDeltaPerCommit /\ ~Contributed) => pc # "overflow"

\* C19: one node per processed delta and none otherwise; after every
\* processed delta, and at return, every node is reachable from a head.
ReachableNodes ==
  UNION {LET chain == Chain(nodes, tree[k])
         IN  {chain[i] : i \in DOMAIN chain} : k \in DOMAIN tree}

AllReachable == NodeIds \subseteq ReachableNodes

NoOrphanNodes ==
  [][ /\ (new_path' # NoPath /\ pc' = "walking") =>
           IF new_path' \in current_paths
           THEN Len(nodes') = Len(nodes) + 1 /\ AllReachable'
           ELSE nodes' = nodes
      /\ new_path' = NoPath => nodes' = nodes
      /\ pc' = "done" => AllReachable' ]_vars

\* A returned graph of three nodes under two heads, one node behind both.
NoOrphanWitness ==
  /\ pc = "done"
  /\ OneDeltaPerCommit
  /\ Len(nodes) >= 3
  /\ AllReachable
  /\ \E k \in DOMAIN tree : \E l \in DOMAIN tree :
       /\ k # l
       /\ tree[k] # tree[l]
       /\ \E i \in NodeIds : i \notin {tree[k], tree[l]}
            /\ Reaches(nodes, tree[k], i) /\ Reaches(nodes, tree[l], i)

AddedIsNewest ==
  /\ pc = "walking"
  /\ nodes # <<>>
  /\ nodes[Len(nodes)].change_type = "Added"

HexChars == {Digits[i] : i \in 1..16} \cup {UpperDigits[i] : i \in 1..16}

to_lowercase(s) ==
  [i \in DOMAIN s |->
     IF \E j \in 11..16 : UpperDigits[j] = s[i]
     THEN Digits[CHOOSE j \in 11..16 : UpperDigits[j] = s[i]]
     ELSE s[i]]

SHA1Failed(err) == ~sha1_result.ok /\ sha1_result.err = err

SHA1RoundTrip ==
  sha1_pc # "input" =>
    /\ (Len(sha1_input) = 40 /\ \A i \in DOMAIN sha1_input : sha1_input[i] \in HexChars)
         => /\ sha1_result.ok
            /\ sha1_pc = "shown" => sha1_text = to_lowercase(sha1_input)
    /\ SHA1Failed("IncorrectLength") <=> Len(sha1_input) # 40
    /\ SHA1Failed("InvalidHexadecimal") <=>
         /\ Len(sha1_input) = 40
         /\ \E i \in DOMAIN sha1_input : sha1_input[i] \notin HexChars

----------------------------------------------------------------------------
\* Vocabulary of the parser's properties: the grammar of the log.

IsHash(t) == Len(t) = 40 /\ \A i \in DOMAIN t : t[i] \in HexChars

IsInteger(t) ==
  LET ds == IF t # <<>> /\ Head(t) \in {"+", "-"} THEN Tail(t) ELSE t
  IN  ds # <<>> /\ \A i \in DOMAIN ds : ds[i] \in {Digits[j] : j \in 1..10}

\* A change code and its paths: two tokens, or three for a rename or copy,
\* whose code carries a percentage of at most 100.
IsDelta(t) ==
  LET tokens == split(t, <<>>)
      code == tokens[1]
  IN  /\ code # <<>>
      /\ \/ Head(code) \in {"A", "D", "M", "T"} /\ Len(tokens) = 2
         \/ /\ Head(code) \in {"R", "C"}
            /\ Len(tokens) = 3
            /\ IsInteger(Tail(code))
            /\ Head(Tail(code)) \notin {"+", "-"}
            /\ digits_value(Tail(code), 10, 100, 0).ok

Malformed(st, t) ==
  /\ t # <<>>
  /\ IF st = "Hash" THEN ~IsHash(t)
     ELSE IF st = "Timestamp" THEN ~IsInteger(t)
     ELSE ~IsHash(t) /\ ~IsDelta(t)

Texts(ls) == [i \in DOMAIN ls |-> LineText[ls[i]]]

NonBlank(ts) == SelectSeq(ts, LAMBDA t : t # <<>>)

\* The number of lines after the first two that belong to the first commit.
RECURSIVE DeltaRun(_, _)
DeltaRun(ts, k) ==
  IF 2 + k < Len(ts) /\ ~IsHash(ts[3 + k]) THEN DeltaRun(ts, k + 1) ELSE k

\* Header, timestamp, deltas, and again.
RECURSIVE WellFormed(_)
WellFormed(ts) ==
  \/ ts = <<>>
  \/ /\ Len(ts) >= 2
     /\ IsHash(ts[1])
     /\ IsInteger(ts[2])
     /\ LET k == DeltaRun(ts, 0)
        IN  /\ \A i \in 3..(2 + k) : IsDelta(ts[i])
            /\ WellFormed(SubSeq(ts, 3 + k, Len(ts)))

HashBytes(t) == [i \in 1..20 |-> 16 * to_digit(t[2 * i - 1], 16) + to_digit(t[2 * i], 16)]

\* The commits a well-formed input describes.
RECURSIVE Commits(_)
Commits(ts) ==
  IF ts = <<>> THEN <<>>
  ELSE LET k == DeltaRun(ts, 0)
       IN  <<[id |-> HashBytes(ts[1]),
              when |-> [sec |-> parse_i64(ts[2]).val, nsec |-> 0],
              deltas |-> [i \in 1..k |-> parse_delta(ts[2 + i]).delta]]>>
             \o Commits(SubSeq(ts, 3 + k, Len(ts)))

\* The commits commit_sink has been called with and not yet delivered.
InFlight == IF parser_pc \in {"sending", "flushing"} THEN 1 ELSE 0

\* C12: for a well-formed input of n commit headers the consumer receives
\* exactly the n commits the input describes, in order, each with its own
\* id, timestamp and deltas.
ParserOrderComplete ==
  (/\ parser_pc = "done"
   /\ receiver = "finished"
   /\ WellFormed(NonBlank(Texts(lines))))
    => received = Commits(NonBlank(Texts(lines)))

\* C13: at the end of the input the commit in progress is sent only when
\* its hash line and its timestamp line have been read, and every commit
\* sent carries an id and a timestamp read from the input.
EndOfStreamFlush ==
  [][ sent' = sent + 1 =>
        /\ parser_pc = "flushing" => state = "Changes"
        /\ \E i \in DOMAIN lines : \E j \in DOMAIN lines :
             /\ i < j
             /\ IsHash(LineText[lines[i]])
             /\ HashBytes(LineText[lines[i]]) = outgoing.id
             /\ IsInteger(LineText[lines[j]])
             /\ parse_i64(LineText[lines[j]]).val = outgoing.when.sec ]_vars

\* C14: every malformed line puts the parser in its error outcome, and
\* after the error nothing is sent.
MalformedIsFatal ==
  [][ /\ (lines' # lines /\ Malformed(state, LineText[lines'[Len(lines')]]))
           => parser_pc' = "panicked"
      /\ parser_pc = "panicked" => (parser_pc' = "panicked" /\ sent' = sent) ]_vars

\* C15: the sends completed exceed the commits received by at most the
\* bound of the channel; on a channel of bound 0 a send completes together
\* with the receive of the same commit, and the parser is at most one
\* parsed commit ahead of the consumer.
Backpressure ==
  [][ /\ sent' - Len(received') <= capacity
      /\ (capacity = 0 /\ sent' # sent) => received' = Append(received, outgoing)
      /\ capacity = 0 => (sent' + InFlight') - Len(received') <= 1 ]_vars

\* The parser waits in a send on a full channel.
BackpressureWitness ==
  /\ capacity > 0
  /\ Len(channel) = capacity
  /\ parser_pc = "sending"
  /\ receiver = "alive"

\* C16: once the receiver is dropped nothing more is sent or received; a
\* send in progress or begun later is not left waiting, it fails, and the
\* parser stays in its error outcome.
Cancellation ==
  /\ []((receiver = "dropped" /\ parser_pc \in {"sending", "flushing"})
         => ENABLED CommitSink)
  /\ [][ /\ receiver = "dropped" =>
             /\ receiver' = "dropped" /\ sent' = sent /\ received' = received
             /\ (parser_pc \in {"sending", "flushing"} /\ parser_pc' # parser_pc)
                  => parser_pc' = "panicked"
        /\ parser_pc = "panicked" => parser_pc' = "panicked" ]_vars

\* The receiver was dropped while the parser waited in a send on a full
\* channel, and the send failed.
CancellationWitness ==
  /\ receiver = "dropped"
  /\ parser_pc = "panicked"
  /\ state = "Changes"
  /\ lines # <<>>
  /\ IsHash(LineText[lines[Len(lines)]])
  /\ capacity > 0
  /\ Len(channel) = capacity

----------------------------------------------------------------------------
\* C21: several renames/copies to the same new name in one commit.  Once a
\* Renamed or Copied delta with new name c was processed for the current
\* commit, a further delta of the same commit with new name c is processed
\* as well (it adds its node), and when it is a rename or a copy its source
\* is tracked afterwards and has c among the names waiting for it.
SameNameCopiesProcessed ==
  [][ \A i \in NodeIds :
        (/\ pc = "walking"
         /\ pc' = "walking"
         /\ nodes[i].commit = commit
         /\ nodes[i].change_type \in RenameKinds
         /\ commit' = commit
         /\ new_path' = nodes[i].path)
        => /\ Len(nodes') = Len(nodes) + 1
           /\ LET n == nodes'[Len(nodes')]
              IN  n.change_type \in RenameKinds =>
                    /\ n.from \in current_paths'
                    /\ n.from \in DOMAIN pending_renames'
                    /\ \E j \in DOMAIN pending_renames'[n.from] :
                         pending_renames'[n.from][j] = n.path ]_vars

\* C22 as stated: between two deltas a path has an entry in the pending
\* links exactly when the gate lets a delta with that new name through, and
\* each such path is a requested path or the source of a processed rename
\* or copy.
TrackedEqualsPending ==
  pc = "walking" =>
    /\ \A p \in Paths : p \in DOMAIN pending_renames <=> gate(HistoryState, p)
    /\ \A p \in DOMAIN pending_renames :
         \/ p \in paths
         \/ \E i \in NodeIds : nodes[i].change_type \in RenameKinds /\ nodes[i].from = p

\* C22 amended: the tracked set is current_paths, and the pending links are
\* a part of it.  Between two deltas every path with an entry in
\* pending_renames has a branch waiting for it, is the source of a processed
\* rename or copy and passes the gate; every path that passes the gate is a
\* requested path or the source of a processed rename or copy.
PendingAreTracked ==
  pc = "walking" =>
    /\ \A p \in DOMAIN pending_renames :
         /\ gate(HistoryState, p)
         /\ pending_renames[p] # <<>>
         /\ \E i \in NodeIds : nodes[i].change_type \in RenameKinds /\ nodes[i].from = p
    /\ \A p \in current_paths :
         \/ p \in paths
         \/ \E i \in NodeIds : nodes[i].change_type \in RenameKinds /\ nodes[i].from = p

\* A path outside the requested set has a branch waiting for it and is
\* tracked, while a requested path is tracked with nothing waiting for it.
PendingAreTrackedWitness ==
  /\ pc = "walking"
  /\ \E p \in DOMAIN pending_renames : p \notin paths /\ p \in current_paths
  /\ \E q \in current_paths : q \in paths /\ q \notin DOMAIN pending_renames
====
